---------------------------- MODULE Spec2Model ----------------------------
(***************************************************************************)
(* Model of the Kubernetes remediation agent:                              *)
(*   src/src/remediation/agent.py              RemediationAgent            *)
(*   src/src/remediation/metrics.py            MetricsCollector            *)
(*   src/src/remediation/kubernetes_client.py  KubernetesClient            *)
(*                                                                         *)
(* Representation.                                                         *)
(*  - Python dicts are TLA+ records; a key is present iff it is in the     *)
(*    record's DOMAIN, so d["k"] on a missing key is a KeyError and        *)
(*    d.get("k", x) is Get(d, "k", x).                                     *)
(*  - Fractions (confidence, threshold, usage, multipliers) are integers   *)
(*    in hundredths: 80 is 0.8, 150 is 1.5.                                *)
(*  - Quantity strings ("500m", "512Mi") are sequences of one-character    *)
(*    strings, so that replace(), float() and the f-string are computed.   *)
(*  - datetime.now().isoformat() is the token Timestamp.                   *)
(*  - None is the string NoneVal where a string is expected and the        *)
(*    record NoneDict where a dict is expected.                            *)
(***************************************************************************)
EXTENDS Integers, Sequences, FiniteSets, TLC

VARIABLES
    demo_mode,               \* KubernetesClient.demo_mode
    prediction_threshold,    \* RemediationAgent.prediction_threshold (hundredths)
    action_history,          \* RemediationAgent.action_history
    action_counter,          \* MetricsCollector.action_counter, by <<action_type, success>>
    action_duration,         \* MetricsCollector.action_duration, by action_type: [sum, count]
    prevention_counter,      \* MetricsCollector.prevention_counter, by issue_type
    false_positive_counter,  \* MetricsCollector.false_positive_counter, by action_type
    resource_utilization,    \* MetricsCollector.resource_utilization, by <<resource_type, namespace>>
    last                     \* the last completed call: its name, arguments and result

vars == <<demo_mode, prediction_threshold, action_history, action_counter,
          action_duration, prevention_counter, false_positive_counter,
          resource_utilization, last>>

agentVars == <<prediction_threshold, action_history>>

metricVars == <<action_counter, action_duration, prevention_counter,
                false_positive_counter, resource_utilization>>

-----------------------------------------------------------------------------
(* Bounds of the model *)

\* handle_prediction is not called once the action log holds MaxLog entries
MaxLog == 2

\* mark_false_positive is not called once MaxMarks false positives are counted
MaxMarks == 2

\* the collector's record_* operations are not called directly once MaxCount
\* calls of one kind are counted
MaxCount == 3

-----------------------------------------------------------------------------
(* Python values *)

NoneVal == "None"

NoneDict == [is_none |-> TRUE]

IsNone(d) == DOMAIN d = {"is_none"}

Timestamp == "now"

Get(d, k, default) == IF k \in DOMAIN d THEN d[k] ELSE default

\* str(bool)
StrBool(b) == IF b THEN "True" ELSE "False"

\* str(KeyError(k)) is the key in quotes
KeyErrorMsg(k) == "'" \o k \o "'"

UnboundLocalMsg ==
    "cannot access local variable 'action_type' where it is not associated with a value"

AttributeErrorMsg == "'NoneType' object has no attribute 'get'"

ValueErrorFloatMsg == "could not convert string to float"

ApiExceptionMsg == "ApiException"

\* int(x) for x infinite or not a number
IntOfSpecialMsg(special) ==
    IF special = "inf"
    THEN "cannot convert float infinity to integer"
    ELSE "cannot convert float NaN to integer"

UnknownIssueMsg(t) == "Unknown issue type: " \o t

ThresholdErrorMsg == "Threshold must be between 0 and 1"

-----------------------------------------------------------------------------
(* Quantity strings *)

Digits == <<"0", "1", "2", "3", "4", "5", "6", "7", "8", "9">>

IsDigit(c) == \E i \in 1..10 : Digits[i] = c

DigitVal(c) == (CHOOSE i \in 1..10 : Digits[i] = c) - 1

\* s starts with pat
StartsWith(s, pat) ==
    /\ Len(s) >= Len(pat)
    /\ SubSeq(s, 1, Len(pat)) = pat

RECURSIVE StrReplace(_, _)
\* s.replace(pat, ''): every non-overlapping occurrence of pat, left to right
StrReplace(s, pat) ==
    IF s = <<>> THEN <<>>
    ELSE IF StartsWith(s, pat)
         THEN StrReplace(SubSeq(s, Len(pat) + 1, Len(s)), pat)
         ELSE <<Head(s)>> \o StrReplace(Tail(s), pat)

RECURSIVE DigitsToNat(_)
DigitsToNat(s) ==
    IF s = <<>> THEN 0
    ELSE 10 * DigitsToNat(SubSeq(s, 1, Len(s) - 1)) + DigitVal(s[Len(s)])

\* float(s), for s over the alphabet of digits and the letters a, f, i, n, u,
\* m, M, G, K, x: a non-empty run of digits is its value, the words inf and nan
\* are the infinity and the not-a-number (special), anything else a ValueError
ParseFloat(s) ==
    IF s # <<>> /\ \A i \in 1..Len(s) : IsDigit(s[i])
    THEN [ok |-> TRUE, val |-> DigitsToNat(s), special |-> "no"]
    ELSE IF s = <<"i", "n", "f">>
    THEN [ok |-> TRUE, val |-> 0, special |-> "inf"]
    ELSE IF s = <<"n", "a", "n">>
    THEN [ok |-> TRUE, val |-> 0, special |-> "nan"]
    ELSE [ok |-> FALSE, val |-> 0, special |-> "no"]

\* round(x * multiplier) in place of int(x * multiplier)
IntOfProduct_Rounded(x, multiplier) == (x * multiplier + 50) \div 100

\* int(x * multiplier): truncation toward zero; multiplier in hundredths
IntOfProduct(x, multiplier) ==
    LET p == x * multiplier
    IN IF p >= 0 THEN p \div 100 ELSE -((-p) \div 100)

RECURSIVE IntToStr(_)
\* f"{n}" for n >= 0
IntToStr(n) ==
    IF n < 10 THEN <<Digits[n + 1]>>
    ELSE IntToStr(n \div 10) \o <<Digits[(n % 10) + 1]>>

-----------------------------------------------------------------------------
(* KubernetesClient: the executor.  In demo mode every operation succeeds  *)
(* with a canned result; otherwise the cluster API call succeeds or raises *)
(* and the outcome oc ("success" or "error") is the environment's choice.  *)

Str500m == <<"5", "0", "0", "m">>

Str750m == <<"7", "5", "0", "m">>

Str512Mi == <<"5", "1", "2", "M", "i">>

Str768Mi == <<"7", "6", "8", "M", "i">>

\* the empty dict {}
EmptyDict == [k \in {} |-> 0]

scale_deployment(demo, oc, namespace, name, replicas) ==
    IF demo
    THEN [action |-> "scale_deployment", status |-> "success",
          details |-> [namespace |-> namespace, deployment |-> name,
                       old_replicas |-> replicas - 1, new_replicas |-> replicas,
                       timestamp |-> Timestamp]]
    ELSE IF oc = "success"
    THEN \* deployment.spec.replicas is assigned before it is read back
         [action |-> "scale_deployment", status |-> "success",
          details |-> [namespace |-> namespace, deployment |-> name,
                       old_replicas |-> replicas, new_replicas |-> replicas,
                       timestamp |-> Timestamp]]
    ELSE [action |-> "scale_deployment", status |-> "error",
          error |-> ApiExceptionMsg]

relocate_pod(demo, oc, namespace, pod_name) ==
    IF demo
    THEN [action |-> "relocate_pod", status |-> "success",
          details |-> [namespace |-> namespace, pod |-> pod_name,
                       old_node |-> "node-1", new_node |-> "node-2",
                       timestamp |-> Timestamp]]
    ELSE IF oc = "success"
    THEN [action |-> "relocate_pod", status |-> "success",
          details |-> [namespace |-> namespace, pod |-> pod_name,
                       old_node |-> "node-1", timestamp |-> Timestamp]]
    ELSE [action |-> "relocate_pod", status |-> "error",
          error |-> ApiExceptionMsg]

\* cpu_request, memory_request: a quantity string; None (falsy, like "") is <<>>
optimize_resources(demo, oc, namespace, deployment, cpu_request, memory_request) ==
    IF demo
    THEN [action |-> "optimize_resources", status |-> "success",
          details |-> [namespace |-> namespace, deployment |-> deployment,
                       changes |-> [cpu |-> [old |-> Str500m,
                                             new |-> IF cpu_request # <<>>
                                                     THEN cpu_request ELSE Str750m],
                                    memory |-> [old |-> Str512Mi,
                                                new |-> IF memory_request # <<>>
                                                        THEN memory_request
                                                        ELSE Str768Mi]],
                       timestamp |-> Timestamp]]
    ELSE IF oc = "success"
    THEN [action |-> "optimize_resources", status |-> "success",
          details |-> [namespace |-> namespace, deployment |-> deployment,
                       changes |-> [cpu |-> [old |-> IF cpu_request # <<>>
                                                     THEN cpu_request ELSE <<>>,
                                             new |-> cpu_request],
                                    memory |-> [old |-> IF memory_request # <<>>
                                                        THEN memory_request ELSE <<>>,
                                                new |-> memory_request]],
                       timestamp |-> Timestamp]]
    ELSE [action |-> "optimize_resources", status |-> "error",
          error |-> ApiExceptionMsg]

\* oc: "found" (the node is listed), "absent" (it is not), "error" (the call raises)
get_node_metrics(demo, oc, node_name) ==
    IF demo
    THEN [cpu_usage |-> 75, memory_usage |-> 85, disk_usage |-> 60,
          network_usage |-> 40]
    ELSE IF oc = "found"
    THEN \* _parse_node_metrics: keys cpu and memory
         [cpu |-> 0, memory |-> 0]
    ELSE EmptyDict

\* s.endswith(suffix)
EndsWith(s, suffix) ==
    /\ Len(s) >= Len(suffix)
    /\ SubSeq(s, Len(s) - Len(suffix) + 1, Len(s)) = suffix

\* s[:-n]
DropLast(s, n) == SubSeq(s, 1, Len(s) - n)

\* 0.0
Zero == [num |-> 0, scale |-> "1"]

\* float(text) divided or multiplied by the scale of the suffix, inside the
\* try of a parser: the product num x scale, kept as the pair so that 1e-9 and
\* 1024^3 need no arithmetic; the infinity and the not-a-number scale to
\* themselves; a ValueError of float() is caught and 0.0 returned
ScaledFloat(text, scale) ==
    LET f == ParseFloat(text)
    IN IF ~f.ok THEN Zero
       ELSE IF f.special # "no" THEN [special |-> f.special]
       ELSE IF f.val = 0 THEN Zero
       ELSE [num |-> f.val, scale |-> scale]

_parse_cpu_value(cpu) ==
    IF EndsWith(cpu, <<"n">>) THEN ScaledFloat(DropLast(cpu, 1), "1e-9")
    ELSE IF EndsWith(cpu, <<"u">>) THEN ScaledFloat(DropLast(cpu, 1), "1e-6")
    ELSE IF EndsWith(cpu, <<"m">>) THEN ScaledFloat(DropLast(cpu, 1), "1e-3")
    ELSE ScaledFloat(cpu, "1")

_parse_memory_value(memory) ==
    IF EndsWith(memory, <<"K", "i">>) THEN ScaledFloat(DropLast(memory, 2), "1024")
    ELSE IF EndsWith(memory, <<"M", "i">>)
    THEN ScaledFloat(DropLast(memory, 2), "1024^2")
    ELSE IF EndsWith(memory, <<"G", "i">>)
    THEN ScaledFloat(DropLast(memory, 2), "1024^3")
    ELSE ScaledFloat(memory, "1")

-----------------------------------------------------------------------------
(* RemediationAgent: the plan builders.  Each returns                      *)
(*   raised   the builder raised an exception                              *)
(*   error    str(exception)                                               *)
(*   actions  the list it returns                                          *)
(*   calls    the executor operations it invoked, in order                 *)

Ok(actions, calls) ==
    [raised |-> FALSE, error |-> NoneVal, actions |-> actions, calls |-> calls]

Raise(msg, calls) ==
    [raised |-> TRUE, error |-> msg, actions |-> <<>>, calls |-> calls]

ScaleCall(namespace, name, replicas) ==
    [op |-> "scale_deployment", namespace |-> namespace, name |-> name,
     replicas |-> replicas]

RelocateCall(namespace, pod) ==
    [op |-> "relocate_pod", namespace |-> namespace, pod |-> pod]

OptimizeCall(namespace, deployment, cpu_request, memory_request) ==
    [op |-> "optimize_resources", namespace |-> namespace,
     deployment |-> deployment, cpu_request |-> cpu_request,
     memory_request |-> memory_request]

MetricsCall(node) == [op |-> "get_node_metrics", node |-> node]

\* the usage_increase above which resource_exhaustion scales the deployment
UsageIncreaseLimit == 80

\* the node usage above which performance_degradation optimizes
NodeUsageLimit == 80

\* target.get("replicas", 1)
DefaultReplicas == 1

\* details.get("cpu_adjustment", 1.2), details.get("memory_adjustment", 1.2)
DefaultAdjustment == 120

Str100m == <<"1", "0", "0", "m">>

Str128Mi == <<"1", "2", "8", "M", "i">>

_handle_resource_exhaustion(prediction, demo, oc) ==
    IF "target" \notin DOMAIN prediction THEN Raise(KeyErrorMsg("target"), <<>>)
    ELSE
    LET target == prediction.target
        details == Get(prediction, "details", EmptyDict)
    IN
    IF IsNone(details) THEN Raise(AttributeErrorMsg, <<>>)
    ELSE
    LET scale == Get(details, "usage_increase", 0) > UsageIncreaseLimit IN
    IF "namespace" \notin DOMAIN target THEN Raise(KeyErrorMsg("namespace"), <<>>)
    ELSE IF "deployment" \notin DOMAIN target THEN Raise(KeyErrorMsg("deployment"), <<>>)
    ELSE
    LET replicas == Get(target, "replicas", DefaultReplicas) + 1
        scale_result == scale_deployment(demo, oc.first, target.namespace,
                                         target.deployment, replicas)
        optimize_result == optimize_resources(demo, oc.second, target.namespace,
                                              target.deployment, <<>>, <<>>)
        scaled == IF scale
                  THEN <<[type |-> "scale_deployment", details |-> scale_result]>>
                  ELSE <<>>
        scale_calls == IF scale
                       THEN <<ScaleCall(target.namespace, target.deployment, replicas)>>
                       ELSE <<>>
    IN Ok(Append(scaled, [type |-> "optimize_resources", details |-> optimize_result]),
          Append(scale_calls, OptimizeCall(target.namespace, target.deployment, <<>>, <<>>)))

\* the node_failure plan with a retry: relocate_pod is called a second time
\* when the first call reported an error
_handle_node_failure_Retry(prediction, demo, oc) ==
    IF "target" \notin DOMAIN prediction THEN Raise(KeyErrorMsg("target"), <<>>)
    ELSE
    LET target == prediction.target IN
    IF "namespace" \notin DOMAIN target THEN Raise(KeyErrorMsg("namespace"), <<>>)
    ELSE IF "pod" \notin DOMAIN target THEN Raise(KeyErrorMsg("pod"), <<>>)
    ELSE
    LET relocate_result == relocate_pod(demo, oc.first, target.namespace, target.pod)
        call == RelocateCall(target.namespace, target.pod)
    IN Ok(<<[type |-> "relocate_pod", details |-> relocate_result]>>,
          IF relocate_result.status = "error" THEN <<call, call>> ELSE <<call>>)

_handle_node_failure(prediction, demo, oc) ==
    IF "target" \notin DOMAIN prediction THEN Raise(KeyErrorMsg("target"), <<>>)
    ELSE
    LET target == prediction.target IN
    IF "namespace" \notin DOMAIN target THEN Raise(KeyErrorMsg("namespace"), <<>>)
    ELSE IF "pod" \notin DOMAIN target THEN Raise(KeyErrorMsg("pod"), <<>>)
    ELSE
    LET relocate_result == relocate_pod(demo, oc.first, target.namespace, target.pod)
    IN Ok(<<[type |-> "relocate_pod", details |-> relocate_result]>>,
          <<RelocateCall(target.namespace, target.pod)>>)

\* f"{int(float(current.replace(suffix, '')) * multiplier)}{suffix}"
NewQuantity(current, suffix, multiplier) ==
    IntToStr(IntOfProduct(ParseFloat(StrReplace(current, suffix)).val, multiplier))
        \o suffix

_handle_resource_bottleneck(prediction, demo, oc) ==
    IF "target" \notin DOMAIN prediction THEN Raise(KeyErrorMsg("target"), <<>>)
    ELSE
    LET target == prediction.target
        current_cpu == Get(target, "current_cpu", Str100m)
        current_memory == Get(target, "current_memory", Str128Mi)
    IN
    IF "details" \notin DOMAIN prediction THEN Raise(KeyErrorMsg("details"), <<>>)
    ELSE IF IsNone(prediction.details) THEN Raise(AttributeErrorMsg, <<>>)
    ELSE
    LET cpu_multiplier == Get(prediction.details, "cpu_adjustment", DefaultAdjustment)
        memory_multiplier == Get(prediction.details, "memory_adjustment", DefaultAdjustment)
    IN
    IF ~ParseFloat(StrReplace(current_cpu, <<"m">>)).ok
    THEN Raise(ValueErrorFloatMsg, <<>>)
    ELSE IF ParseFloat(StrReplace(current_cpu, <<"m">>)).special # "no"
    THEN Raise(IntOfSpecialMsg(ParseFloat(StrReplace(current_cpu, <<"m">>)).special),
               <<>>)
    ELSE IF ~ParseFloat(StrReplace(current_memory, <<"M", "i">>)).ok
    THEN Raise(ValueErrorFloatMsg, <<>>)
    ELSE IF ParseFloat(StrReplace(current_memory, <<"M", "i">>)).special # "no"
    THEN Raise(IntOfSpecialMsg(
                   ParseFloat(StrReplace(current_memory, <<"M", "i">>)).special),
               <<>>)
    ELSE
    LET new_cpu == NewQuantity(current_cpu, <<"m">>, cpu_multiplier)
        new_memory == NewQuantity(current_memory, <<"M", "i">>, memory_multiplier)
    IN
    IF "namespace" \notin DOMAIN target THEN Raise(KeyErrorMsg("namespace"), <<>>)
    ELSE IF "deployment" \notin DOMAIN target THEN Raise(KeyErrorMsg("deployment"), <<>>)
    ELSE
    LET optimize_result == optimize_resources(demo, oc.first, target.namespace,
                                              target.deployment, new_cpu, new_memory)
    IN Ok(<<[type |-> "optimize_resources", details |-> optimize_result]>>,
          <<OptimizeCall(target.namespace, target.deployment, new_cpu, new_memory)>>)

_handle_performance_degradation(prediction, demo, oc) ==
    IF "target" \notin DOMAIN prediction THEN Raise(KeyErrorMsg("target"), <<>>)
    ELSE
    LET target == prediction.target IN
    IF "node" \notin DOMAIN target THEN Raise(KeyErrorMsg("node"), <<>>)
    ELSE
    LET metrics == get_node_metrics(demo, oc.node, target.node)
        calls == <<MetricsCall(target.node)>>
    IN
    IF "cpu_usage" \notin DOMAIN metrics THEN Raise(KeyErrorMsg("cpu_usage"), calls)
    ELSE IF metrics.cpu_usage <= NodeUsageLimit /\ "memory_usage" \notin DOMAIN metrics
    THEN Raise(KeyErrorMsg("memory_usage"), calls)
    ELSE IF metrics.cpu_usage > NodeUsageLimit \/ metrics.memory_usage > NodeUsageLimit
    THEN IF "namespace" \notin DOMAIN target THEN Raise(KeyErrorMsg("namespace"), calls)
         ELSE IF "deployment" \notin DOMAIN target
         THEN Raise(KeyErrorMsg("deployment"), calls)
         ELSE
         LET optimize_result == optimize_resources(demo, oc.first, target.namespace,
                                                   target.deployment, <<>>, <<>>)
         IN Ok(<<[type |-> "optimize_resources", details |-> optimize_result]>>,
               Append(calls, OptimizeCall(target.namespace, target.deployment, <<>>, <<>>)))
    ELSE Ok(<<>>, calls)

-----------------------------------------------------------------------------
(* MetricsCollector.  A labelled counter is a function from its label      *)
(* values to the count of that child; a child never created counts 0.      *)

ActionTypeLabels == {"resource_scaling", "pod_relocation", "resource_optimization"}

ActionTypes == {"scale_deployment", "relocate_pod", "optimize_resources"}

IssueTypes == {"resource_exhaustion", "node_failure", "resource_bottleneck",
               "performance_degradation"}

ResourceTypes == {"cpu", "memory"}

Namespaces == {"default", "prod"}

RECURSIVE SumOver(_, _)
\* the sum of f over the keys S
SumOver(f, S) ==
    IF S = {} THEN 0
    ELSE LET k == CHOOSE x \in S : TRUE
         IN f[k] + SumOver(f, S \ {k})

Total(f) == SumOver(f, DOMAIN f)

\* record_action: one increment of the (action_type, str(success)) child and one
\* observation of the duration
record_action(m, action_type, success, duration) ==
    [m EXCEPT !.action_counter[<<action_type, StrBool(success)>>] = @ + 1,
              !.action_duration[action_type] =
                  [sum |-> @.sum + duration, count |-> @.count + 1]]

record_prevention(m, issue_type) ==
    [m EXCEPT !.prevention_counter[issue_type] = @ + 1]

\* record_false_positive: action.get("type", "unknown")
record_false_positive(m, action) ==
    [m EXCEPT !.false_positive_counter[Get(action, "type", "unknown")] = @ + 1]

\* the gauge incremented by the value (Gauge.inc) where the code sets it
record_resource_utilization_Accumulate(m, resource_type, namespace, value) ==
    [m EXCEPT !.resource_utilization[<<resource_type, namespace>>] = @ + value]

\* Gauge.set: the value is overwritten
record_resource_utilization(m, resource_type, namespace, value) ==
    [m EXCEPT !.resource_utilization[<<resource_type, namespace>>] = value]

\* The attributes of a metric object created with label names: its children
\* live in _metrics, and _value, _sum and _count exist on a child only.
LabelledMetricAttrs == {"_metrics", "_labelnames", "_lock"}

\* _calculate_success_rate, as [num, den]; 0.0 is 0/1
_calculate_success_rate(m) ==
    LET total == Total(m.action_counter)
        successful == SumOver(m.action_counter,
                              {k \in DOMAIN m.action_counter : k[2] = "True"})
    IN IF total = 0 THEN [num |-> 0, den |-> 1]
       ELSE [num |-> successful, den |-> total]

\* _calculate_average_duration, as [num, den]
_calculate_average_duration(m) ==
    LET sum == SumOver([t \in DOMAIN m.action_duration |-> m.action_duration[t].sum],
                       DOMAIN m.action_duration)
        count == SumOver([t \in DOMAIN m.action_duration |-> m.action_duration[t].count],
                         DOMAIN m.action_duration)
    IN IF sum = 0 THEN [num |-> 0, den |-> 1]
       ELSE [num |-> sum, den |-> count]

\* get_metrics: the first value computed is self.action_counter._value.sum();
\* the AttributeError is caught and {} returned
get_metrics(m) ==
    IF "_value" \notin LabelledMetricAttrs
    THEN EmptyDict
    ELSE [actions |-> [total |-> Total(m.action_counter),
                       success_rate |-> _calculate_success_rate(m),
                       average_duration |-> _calculate_average_duration(m)],
          preventions |-> [total |-> Total(m.prevention_counter)],
          false_positives |-> [total |-> Total(m.false_positive_counter)],
          resource_utilization |-> m.resource_utilization]

\* the collector's state as one value
Metrics ==
    [action_counter |-> action_counter, action_duration |-> action_duration,
     prevention_counter |-> prevention_counter,
     false_positive_counter |-> false_positive_counter,
     resource_utilization |-> resource_utilization]

SetMetrics(m) ==
    /\ action_counter' = m.action_counter
    /\ action_duration' = m.action_duration
    /\ prevention_counter' = m.prevention_counter
    /\ false_positive_counter' = m.false_positive_counter
    /\ resource_utilization' = m.resource_utilization

-----------------------------------------------------------------------------
(* RemediationAgent.handle_prediction *)

\* the threshold set by __init__
DefaultThreshold == 80

\* the gate with the comparison turned around
BelowThreshold_Inverted(confidence, threshold) == confidence > threshold

\* the gate closing on equality as well
BelowThreshold_OrEqual(confidence, threshold) == confidence <= threshold

\* the gate: prediction["confidence"] < self.prediction_threshold
BelowThreshold(confidence, threshold) == confidence < threshold

\* the loop with the append moved after record_action: the exception raised
\* while the arguments of record_action are evaluated leaves the log as it was
RecordActions_RecordFirst(actions, st, bound, action_type) ==
    IF actions = <<>> THEN st
    ELSE IF ~bound THEN [st EXCEPT !.raised = TRUE, !.error = UnboundLocalMsg]
    ELSE [st EXCEPT !.raised = TRUE, !.error = KeyErrorMsg("success")]

RECURSIVE RecordActions(_, _, _, _)
\* The loop "for action in actions" of handle_prediction.  st holds the log and
\* the collector as the loop leaves them, and the exception that ended it.
\* The arguments of record_action are evaluated left to right after the append:
\* action_type (unbound on the performance_degradation branch), then
\* action["success"].
RecordActions(actions, st, bound, action_type) ==
    IF actions = <<>> THEN st
    ELSE LET action == [type |-> Head(actions).type,
                        details |-> Head(actions).details,
                        timestamp |-> Timestamp]
             appended == [st EXCEPT !.history = Append(@, action),
                                    !.recorded = Append(@, action)]
         IN IF ~bound
            THEN [appended EXCEPT !.raised = TRUE, !.error = UnboundLocalMsg]
            ELSE IF "success" \notin DOMAIN action
            THEN [appended EXCEPT !.raised = TRUE, !.error = KeyErrorMsg("success")]
            ELSE RecordActions(
                     Tail(actions),
                     [appended EXCEPT !.metrics =
                         record_action(@, action_type, action["success"],
                                       Get(action, "duration", 0))],
                     bound, action_type)

\* the dispatch without its else branch: an unrecognized type plans nothing
Dispatch_NoElse(prediction, demo, oc) ==
    CASE prediction.issue_type = "resource_exhaustion" ->
             _handle_resource_exhaustion(prediction, demo, oc)
      [] prediction.issue_type = "node_failure" ->
             _handle_node_failure(prediction, demo, oc)
      [] prediction.issue_type = "resource_bottleneck" ->
             _handle_resource_bottleneck(prediction, demo, oc)
      [] prediction.issue_type = "performance_degradation" ->
             _handle_performance_degradation(prediction, demo, oc)
      [] OTHER -> Ok(<<>>, <<>>)

\* the plan builder of the dispatch, or the ValueError of its else branch
Dispatch(prediction, demo, oc) ==
    CASE prediction.issue_type = "resource_exhaustion" ->
             _handle_resource_exhaustion(prediction, demo, oc)
      [] prediction.issue_type = "node_failure" ->
             _handle_node_failure(prediction, demo, oc)
      [] prediction.issue_type = "resource_bottleneck" ->
             _handle_resource_bottleneck(prediction, demo, oc)
      [] prediction.issue_type = "performance_degradation" ->
             _handle_performance_degradation(prediction, demo, oc)
      [] OTHER -> Raise(UnknownIssueMsg(prediction.issue_type), <<>>)

\* action_type is assigned on three of the four branches
ActionTypeBound(issue_type) ==
    issue_type \in {"resource_exhaustion", "node_failure", "resource_bottleneck"}

ActionTypeOf(issue_type) ==
    CASE issue_type = "resource_exhaustion" -> "resource_scaling"
      [] issue_type = "node_failure" -> "pod_relocation"
      [] issue_type = "resource_bottleneck" -> "resource_optimization"
      [] OTHER -> NoneVal

\* an except clause that lets the exception out: the caller gets the exception
\* and no result
ErrorResult_Propagated(prediction, msg) == [exception |-> msg]

\* what the except clause returns
ErrorResult(prediction, msg) ==
    [timestamp |-> Timestamp, prediction |-> prediction, actions |-> <<>>,
     success |-> FALSE, error |-> msg]

\* handle_prediction as a function of the state: the result it returns, the log
\* and collector it leaves, whether a plan builder returned (built) and the plan
\* it returned, and the executor calls made
handle_prediction(prediction, demo, oc, threshold, history, m) ==
    LET same(result, built, calls) ==
            [result |-> result, history |-> history, metrics |-> m,
             built |-> built, plan |-> <<>>, calls |-> calls]
    IN
    IF "confidence" \notin DOMAIN prediction
    THEN same(ErrorResult(prediction, KeyErrorMsg("confidence")), FALSE, <<>>)
    ELSE IF BelowThreshold(prediction.confidence, threshold)
    THEN same([timestamp |-> Timestamp, prediction |-> prediction,
               actions |-> <<>>, success |-> FALSE], FALSE, <<>>)
    ELSE IF "issue_type" \notin DOMAIN prediction
    THEN same(ErrorResult(prediction, KeyErrorMsg("issue_type")), FALSE, <<>>)
    ELSE
    LET built == Dispatch(prediction, demo, oc) IN
    IF built.raised
    THEN same(ErrorResult(prediction, built.error), FALSE, built.calls)
    ELSE
    LET st == RecordActions(built.actions,
                            [history |-> history, metrics |-> m, recorded |-> <<>>,
                             raised |-> FALSE, error |-> NoneVal],
                            ActionTypeBound(prediction.issue_type),
                            ActionTypeOf(prediction.issue_type))
    IN
    IF st.raised
    THEN [result |-> ErrorResult(prediction, st.error), history |-> st.history,
          metrics |-> st.metrics, built |-> TRUE, plan |-> built.actions,
          calls |-> built.calls]
    ELSE [result |-> [timestamp |-> Timestamp, prediction |-> prediction,
                      actions |-> st.recorded, success |-> TRUE, error |-> NoneVal],
          history |-> st.history,
          metrics |-> IF built.actions # <<>>
                      THEN record_prevention(st.metrics, prediction.issue_type)
                      ELSE st.metrics,
          built |-> TRUE, plan |-> built.actions, calls |-> built.calls]

-----------------------------------------------------------------------------
(* RemediationAgent: the other operations *)

\* set_prediction_threshold with the bounds excluded
set_prediction_threshold_Strict(threshold, stored) ==
    IF 0 < threshold /\ threshold < 100
    THEN [raised |-> FALSE, error |-> NoneVal, threshold |-> threshold]
    ELSE [raised |-> TRUE, error |-> ThresholdErrorMsg, threshold |-> stored]

\* set_prediction_threshold without its range test
set_prediction_threshold_Unchecked(threshold, stored) ==
    [raised |-> FALSE, error |-> NoneVal, threshold |-> threshold]

\* set_prediction_threshold: the new threshold, or the ValueError
set_prediction_threshold(threshold, stored) ==
    IF 0 <= threshold /\ threshold <= 100
    THEN [raised |-> FALSE, error |-> NoneVal, threshold |-> threshold]
    ELSE [raised |-> TRUE, error |-> ThresholdErrorMsg, threshold |-> stored]

\* the flag turned over: a marked entry that is marked again loses its flag
SetFlag_Toggle(action) ==
    [k \in DOMAIN action \cup {"false_positive"} |->
        IF k = "false_positive"
        THEN ~Get(action, "false_positive", FALSE)
        ELSE action[k]]

\* action["false_positive"] = True
SetFlag(action) ==
    [k \in DOMAIN action \cup {"false_positive"} |->
        IF k = "false_positive" THEN TRUE ELSE action[k]]

\* the test of the scan with "or" for "and"
Matches_Either(action, action_id, action_type) ==
    \/ Get(action, "id", NoneVal) = action_id
    \/ Get(action, "type", NoneVal) = action_type

\* the test of the scan: action.get("id") == action_id and action.get("type") == action_type
Matches(action, action_id, action_type) ==
    /\ Get(action, "id", NoneVal) = action_id
    /\ Get(action, "type", NoneVal) = action_type

\* mark_false_positive counting an entry once: a match that has its flag
\* already returns true without another count
mark_false_positive_Idempotent(action_id, action_type, history, m) ==
    LET hits == {i \in 1..Len(history) : Matches(history[i], action_id, action_type)}
    IN IF hits = {}
       THEN [result |-> FALSE, history |-> history, metrics |-> m]
       ELSE LET i == CHOOSE j \in hits : \A k \in hits : j <= k
                flagged == SetFlag(history[i])
            IN [result |-> TRUE,
                history |-> [history EXCEPT ![i] = flagged],
                metrics |-> IF Get(history[i], "false_positive", FALSE)
                            THEN m
                            ELSE record_false_positive(m, flagged)]

\* mark_false_positive: the first matching entry is flagged and counted
mark_false_positive(action_id, action_type, history, m) ==
    LET hits == {i \in 1..Len(history) : Matches(history[i], action_id, action_type)}
    IN IF hits = {}
       THEN [result |-> FALSE, history |-> history, metrics |-> m]
       ELSE LET i == CHOOSE j \in hits : \A k \in hits : j <= k
                flagged == SetFlag(history[i])
            IN [result |-> TRUE,
                history |-> [history EXCEPT ![i] = flagged],
                metrics |-> record_false_positive(m, flagged)]

-----------------------------------------------------------------------------
(* Inputs *)

BaseTarget ==
    [namespace |-> "default", deployment |-> "web-app", pod |-> "web-pod",
     node |-> "node-1"]

With(d, k, v) == [x \in DOMAIN d \cup {k} |-> IF x = k THEN v ELSE d[x]]

Without(d, k) == [x \in DOMAIN d \ {k} |-> d[x]]

Confidences == {50, 80, 95}

ExhaustionInputs ==
    {[issue_type |-> "resource_exhaustion", target |-> BaseTarget,
      details |-> [usage_increase |-> 90]],
     [issue_type |-> "resource_exhaustion", target |-> With(BaseTarget, "replicas", 2),
      details |-> [usage_increase |-> 90]],
     [issue_type |-> "resource_exhaustion", target |-> With(BaseTarget, "replicas", 2),
      details |-> [usage_increase |-> 80]],
     [issue_type |-> "resource_exhaustion", target |-> BaseTarget,
      details |-> NoneDict],
     [issue_type |-> "resource_exhaustion", target |-> BaseTarget]}

NodeFailureInputs ==
    {[issue_type |-> "node_failure", target |-> t, details |-> NoneDict] :
        t \in {BaseTarget, Without(BaseTarget, "pod")}}

BottleneckInputs ==
    {[issue_type |-> "resource_bottleneck", target |-> BaseTarget,
      details |-> EmptyDict],
     [issue_type |-> "resource_bottleneck",
      target |-> With(With(BaseTarget, "current_cpu", Str500m),
                      "current_memory", Str512Mi),
      details |-> [cpu_adjustment |-> 150, memory_adjustment |-> 120]],
     [issue_type |-> "resource_bottleneck",
      target |-> With(BaseTarget, "current_cpu", <<"5", "x", "0", "m">>),
      details |-> EmptyDict]}

DegradationInputs ==
    {[issue_type |-> "performance_degradation", target |-> BaseTarget,
      details |-> NoneDict]}

UnknownInputs ==
    {[issue_type |-> "disk_pressure", target |-> BaseTarget, details |-> NoneDict]}

\* predictions that lack the confidence, the issue_type or the target
MalformedInputs ==
    {[issue_type |-> "node_failure", target |-> BaseTarget, details |-> NoneDict],
     [confidence |-> 95, target |-> BaseTarget, details |-> NoneDict],
     [confidence |-> 95, issue_type |-> "node_failure", details |-> NoneDict]}

\* a prediction whose confidence, -0.1, is outside [0, 1]
OutOfRangeInputs ==
    {[issue_type |-> "node_failure", confidence |-> -10, target |-> BaseTarget,
      details |-> NoneDict]}

Predictions ==
    {With(p, "confidence", c) :
        p \in ExhaustionInputs \cup NodeFailureInputs \cup BottleneckInputs
              \cup DegradationInputs \cup UnknownInputs,
        c \in Confidences}
    \cup MalformedInputs \cup OutOfRangeInputs

DemoOutcome == [first |-> "success", second |-> "success", node |-> "found"]

\* The environment's choices for the executor calls of one handle_prediction:
\* the outcome of its first and of its second mutating call, and of the node
\* metrics query, for the calls the plan of the issue type can make.
OutcomesFor(prediction) ==
    LET t == Get(prediction, "issue_type", NoneVal)
        details == Get(prediction, "details", EmptyDict)
    IN
    CASE t = "resource_exhaustion" /\ IsNone(details) ->
             \* details.get raises before any call
             {DemoOutcome}
      [] t = "resource_exhaustion" /\ ~IsNone(details) ->
             \* scale_deployment is called when usage_increase > 0.8 only
             [first : IF Get(details, "usage_increase", 0) > UsageIncreaseLimit
                      THEN {"success", "error"}
                      ELSE {"success"},
              second : {"success", "error"}, node : {"found"}]
      [] t \in {"node_failure", "resource_bottleneck"} ->
             [first : {"success", "error"}, second : {"success"}, node : {"found"}]
      [] t = "performance_degradation" ->
             [first : {"success", "error"}, second : {"success"},
              node : {"found", "absent", "error"}]
      [] OTHER -> [first : {"success"}, second : {"success"}, node : {"found"}]

ThresholdInputs == {-1, 0, 100, 101}

ActionIds == {NoneVal, "a1"}

-----------------------------------------------------------------------------
(* The state machine of the agent *)

Init ==
    /\ demo_mode \in BOOLEAN
    /\ prediction_threshold = DefaultThreshold
    /\ action_history = <<>>
    /\ action_counter = [k \in ActionTypeLabels \X {"True", "False"} |-> 0]
    /\ action_duration = [t \in ActionTypeLabels |-> [sum |-> 0, count |-> 0]]
    /\ prevention_counter = [t \in IssueTypes |-> 0]
    /\ false_positive_counter = [t \in ActionTypes \cup {"unknown"} |-> 0]
    /\ resource_utilization = [k \in ResourceTypes \X Namespaces |-> 0]
    /\ last = [op |-> "init"]

HandlePrediction ==
    /\ Len(action_history) < MaxLog
    /\ \E prediction \in Predictions :
       \E oc \in IF demo_mode THEN {DemoOutcome} ELSE OutcomesFor(prediction) :
          \E r \in {handle_prediction(prediction, demo_mode, oc, prediction_threshold,
                                     action_history, Metrics)} :
             /\ action_history' = r.history
             /\ SetMetrics(r.metrics)
             /\ last' = [op |-> "handle_prediction", prediction |-> prediction,
                         result |-> r.result, built |-> r.built, plan |-> r.plan,
                         calls |-> r.calls]
    /\ UNCHANGED <<demo_mode, prediction_threshold>>

\* the setter emptying the action log when it accepts a threshold
SetPredictionThreshold_Resetting ==
    /\ \E threshold \in ThresholdInputs :
          \E r \in {set_prediction_threshold(threshold, prediction_threshold)} :
             /\ prediction_threshold' = r.threshold
             /\ action_history' = IF r.raised THEN action_history ELSE <<>>
             /\ last' = [op |-> "set_prediction_threshold", threshold |-> threshold,
                         raised |-> r.raised, error |-> r.error]
    /\ UNCHANGED <<demo_mode, metricVars>>

SetPredictionThreshold ==
    /\ \E threshold \in ThresholdInputs :
          \E r \in {set_prediction_threshold(threshold, prediction_threshold)} :
             /\ prediction_threshold' = r.threshold
             /\ last' = [op |-> "set_prediction_threshold", threshold |-> threshold,
                         raised |-> r.raised, error |-> r.error]
    /\ UNCHANGED <<demo_mode, action_history, metricVars>>

MarkFalsePositive ==
    /\ Total(false_positive_counter) < MaxMarks
    /\ \E action_id \in ActionIds, action_type \in ActionTypes :
          \E r \in {mark_false_positive(action_id, action_type, action_history,
                                       Metrics)} :
             /\ action_history' = r.history
             /\ SetMetrics(r.metrics)
             /\ last' = [op |-> "mark_false_positive", action_id |-> action_id,
                         action_type |-> action_type, result |-> r.result]
    /\ UNCHANGED <<demo_mode, prediction_threshold>>

GetActionHistory ==
    /\ last' = [op |-> "get_action_history", result |-> action_history]
    /\ UNCHANGED <<demo_mode, agentVars, metricVars>>

GetEffectivenessMetrics ==
    /\ last' = [op |-> "get_effectiveness_metrics", result |-> get_metrics(Metrics)]
    /\ UNCHANGED <<demo_mode, agentVars, metricVars>>

Next ==
    \/ HandlePrediction
    \/ SetPredictionThreshold
    \/ MarkFalsePositive
    \/ GetActionHistory
    \/ GetEffectivenessMetrics

Spec == Init /\ [][Next]_vars

-----------------------------------------------------------------------------
(* The state machine of the metrics collector on its own: its recording    *)
(* operations called directly, and get_metrics.                            *)

RecordedCalls ==
    Total(action_counter) + Total(prevention_counter) + Total(false_positive_counter)

RecordAction ==
    /\ RecordedCalls < MaxCount
    /\ \E action_type \in {"resource_scaling", "pod_relocation"},
          success \in BOOLEAN, duration \in {0, 2} :
          /\ SetMetrics(record_action(Metrics, action_type, success, duration))
          /\ last' = [op |-> "record_action", action_type |-> action_type,
                      success |-> success, duration |-> duration]
    /\ UNCHANGED <<demo_mode, agentVars>>

RecordPrevention ==
    /\ RecordedCalls < MaxCount
    /\ \E issue_type \in {"resource_exhaustion", "node_failure"} :
          /\ SetMetrics(record_prevention(Metrics, issue_type))
          /\ last' = [op |-> "record_prevention", issue_type |-> issue_type]
    /\ UNCHANGED <<demo_mode, agentVars>>

RecordFalsePositive ==
    /\ RecordedCalls < MaxCount
    /\ \E action \in {[type |-> "relocate_pod"], [details |-> EmptyDict]} :
          /\ SetMetrics(record_false_positive(Metrics, action))
          /\ last' = [op |-> "record_false_positive", action |-> action]
    /\ UNCHANGED <<demo_mode, agentVars>>

RecordResourceUtilization ==
    /\ \E resource_type \in ResourceTypes, value \in {40, 70} :
          /\ SetMetrics(record_resource_utilization(Metrics, resource_type,
                                                    "default", value))
          /\ last' = [op |-> "record_resource_utilization",
                      resource_type |-> resource_type, namespace |-> "default",
                      value |-> value]
    /\ UNCHANGED <<demo_mode, agentVars>>

GetMetrics ==
    /\ last' = [op |-> "get_metrics", result |-> get_metrics(Metrics)]
    /\ UNCHANGED <<demo_mode, agentVars, metricVars>>

NextMetrics ==
    \/ RecordAction
    \/ RecordPrevention
    \/ RecordFalsePositive
    \/ RecordResourceUtilization
    \/ GetMetrics

SpecMetrics == Init /\ [][NextMetrics]_vars

-----------------------------------------------------------------------------
(* The unit parsers of the executor on their own: a quantity string comes  *)
(* in with the node metrics, and each parser is applied to it.             *)

\* the length of the longest quantity string
MaxQuantityLen == 3

QuantityChars == {"1", "5", "n", "u", "m", "K", "M", "G", "i", "a", "f", "x"}

Quantities == UNION {[1..n -> QuantityChars] : n \in 0..MaxQuantityLen}

InitParser ==
    /\ demo_mode = FALSE
    /\ prediction_threshold = DefaultThreshold
    /\ action_history = <<>>
    /\ action_counter = [k \in ActionTypeLabels \X {"True", "False"} |-> 0]
    /\ action_duration = [t \in ActionTypeLabels |-> [sum |-> 0, count |-> 0]]
    /\ prevention_counter = [t \in IssueTypes |-> 0]
    /\ false_positive_counter = [t \in ActionTypes \cup {"unknown"} |-> 0]
    /\ resource_utilization = [k \in ResourceTypes \X Namespaces |-> 0]
    /\ last \in {[op |-> "usage", quantity |-> q] : q \in Quantities}

ParseCpuValue ==
    /\ last.op = "usage"
    /\ last' = [op |-> "_parse_cpu_value", cpu |-> last.quantity,
                result |-> _parse_cpu_value(last.quantity)]
    /\ UNCHANGED <<demo_mode, agentVars, metricVars>>

ParseMemoryValue ==
    /\ last.op = "usage"
    /\ last' = [op |-> "_parse_memory_value", memory |-> last.quantity,
                result |-> _parse_memory_value(last.quantity)]
    /\ UNCHANGED <<demo_mode, agentVars, metricVars>>

NextParser ==
    \/ ParseCpuValue
    \/ ParseMemoryValue

SpecParser == InitParser /\ [][NextParser]_vars

-----------------------------------------------------------------------------
(* Properties.  A step of an operation is recognised by last', which every *)
(* operation sets to its own name, arguments and result.                   *)

HandleStep == last'.op = "handle_prediction"

\* the last call was handle_prediction on a prediction that passed the gate
\* (handle_prediction leaves the threshold as it was)
HandledPastGate ==
    /\ last.op = "handle_prediction"
    /\ "confidence" \in DOMAIN last.prediction
    /\ last.prediction.confidence >= prediction_threshold

\* prediction.get("issue_type")
IssueTypeOf(prediction) == Get(prediction, "issue_type", NoneVal)

TypesOf(actions) == [i \in 1..Len(actions) |-> actions[i].type]

\* C1: a prediction whose confidence is strictly below the stored threshold is
\* answered with success = false and no actions, no executor operation is
\* invoked, and the action log and every counter of the collector stay as
\* they were.
C1_BelowThresholdNoEffect ==
    [][(/\ HandleStep
        /\ "confidence" \in DOMAIN last'.prediction
        /\ last'.prediction.confidence < prediction_threshold)
       => /\ last'.result.success = FALSE
          /\ last'.result.actions = <<>>
          /\ last'.calls = <<>>
          /\ action_history' = action_history
          /\ UNCHANGED metricVars]_vars

\* a gated call on a recognized issue type, made when the log is not empty
C1_Witness ==
    /\ last.op = "handle_prediction"
    /\ "confidence" \in DOMAIN last.prediction
    /\ last.prediction.confidence < prediction_threshold
    /\ IssueTypeOf(last.prediction) \in IssueTypes
    /\ last.result.success = FALSE
    /\ action_history # <<>>

\* C2: a prediction that passes the gate and whose issue_type is none of the
\* four recognized ones is answered with success = false, a non-empty error
\* and no actions; the action log and every counter stay as they were.
C2_UnknownIssueType ==
    [][(/\ HandleStep
        /\ "confidence" \in DOMAIN last'.prediction
        /\ last'.prediction.confidence >= prediction_threshold
        /\ "issue_type" \in DOMAIN last'.prediction
        /\ IssueTypeOf(last'.prediction) \notin IssueTypes)
       => /\ last'.result.success = FALSE
          /\ "error" \in DOMAIN last'.result
          /\ last'.result.error \notin {NoneVal, ""}
          /\ last'.result.actions = <<>>
          /\ action_history' = action_history
          /\ UNCHANGED metricVars]_vars

\* an unknown issue type past the gate, reported as such, with a non-empty log
C2_Witness ==
    /\ HandledPastGate
    /\ IssueTypeOf(last.prediction) = "disk_pressure"
    /\ last.result.error = UnknownIssueMsg("disk_pressure")
    /\ action_history # <<>>

\* C3 as claimed: resource_exhaustion past the gate with usage_increase > 0.8
\* returns a scale_deployment to target.replicas + 1 (1 if absent) followed by
\* an optimize_resources, and both are the last two entries of the action log,
\* in that order; with usage_increase <= 0.8 the plan is the optimize_resources
\* alone.
C3_ExhaustionClaimed ==
    (/\ HandledPastGate
     /\ IssueTypeOf(last.prediction) = "resource_exhaustion"
     /\ "details" \in DOMAIN last.prediction
     /\ "usage_increase" \in DOMAIN last.prediction.details)
    => LET n == Len(action_history)
           returned == last.result.actions
       IN IF last.prediction.details.usage_increase > 80
          THEN /\ TypesOf(last.plan) = <<"scale_deployment", "optimize_resources">>
               /\ last.calls[1].op = "scale_deployment"
               /\ last.calls[1].replicas
                      = Get(last.prediction.target, "replicas", 1) + 1
               /\ TypesOf(returned) = <<"scale_deployment", "optimize_resources">>
               /\ n >= 2
               /\ SubSeq(action_history, n - 1, n) = returned
          ELSE TypesOf(last.plan) = <<"optimize_resources">>

\* C4 as claimed: past the gate, on a recognized issue type whose plan builder
\* returned, the result has success = true, no error, and the planned actions
\* in plan order.
C4_SuccessClaimed ==
    (/\ HandledPastGate
     /\ IssueTypeOf(last.prediction) \in IssueTypes
     /\ last.built)
    => /\ last.result.success = TRUE
       /\ last.result.error = NoneVal
       /\ TypesOf(last.result.actions) = TypesOf(last.plan)

\* C5: set_prediction_threshold with a value below 0 or above 1 raises and
\* leaves the threshold as it was; with a value in [0, 1], bounds included, it
\* stores that value.
C5_ThresholdSetter ==
    [][(last'.op = "set_prediction_threshold")
       => IF 0 <= last'.threshold /\ last'.threshold <= 100
          THEN /\ ~last'.raised
               /\ prediction_threshold' = last'.threshold
          ELSE /\ last'.raised
               /\ last'.error # NoneVal
               /\ prediction_threshold' = prediction_threshold]_vars

\* a rejected update after the bound 0 had been stored
C5_Witness ==
    /\ last.op = "set_prediction_threshold"
    /\ last.raised
    /\ last.threshold \in {-1, 101}
    /\ prediction_threshold = 0

\* C6 as claimed: mark_false_positive called with the id and the type of an
\* entry of the action log returns true, sets false_positive on that entry and
\* adds exactly one to the false-positive counter of that type.
C6_MarkPresentClaimed ==
    [][(last'.op = "mark_false_positive")
       => \A i \in 1..Len(action_history) :
             (/\ Get(action_history[i], "id", NoneVal) = last'.action_id
              /\ action_history[i].type = last'.action_type)
             => /\ last'.result = TRUE
                /\ Get(action_history'[i], "false_positive", FALSE) = TRUE
                /\ false_positive_counter'[last'.action_type]
                       = false_positive_counter[last'.action_type] + 1]_vars

\* C7: mark_false_positive called with an (id, type) pair that matches no entry
\* of the action log returns false and changes neither the log (no entry gains
\* a flag), nor any counter, nor the threshold.
C7_MarkAbsentNoEffect ==
    [][(/\ last'.op = "mark_false_positive"
        /\ \A i \in 1..Len(action_history) :
              ~(/\ Get(action_history[i], "id", NoneVal) = last'.action_id
                /\ Get(action_history[i], "type", NoneVal) = last'.action_type))
       => /\ last'.result = FALSE
          /\ action_history' = action_history
          /\ UNCHANGED metricVars
          /\ prediction_threshold' = prediction_threshold]_vars

\* a call that found nothing although an entry of the type is in the log
C7_Witness ==
    /\ last.op = "mark_false_positive"
    /\ last.result = FALSE
    /\ \E i \in 1..Len(action_history) :
          /\ action_history[i].type = last.action_type
          /\ Get(action_history[i], "id", NoneVal) # last.action_id

\* C8 as claimed: every entry of the action log carries an id and no two
\* entries share one.
C8_UniqueIdsClaimed ==
    /\ \A i \in 1..Len(action_history) : "id" \in DOMAIN action_history[i]
    /\ \A i, j \in 1..Len(action_history) :
          i # j => Get(action_history[i], "id", NoneVal)
                       # Get(action_history[j], "id", NoneVal)

\* the counts of the actions recorded as successful and as failed
Successes == SumOver(action_counter, {k \in DOMAIN action_counter : k[2] = "True"})

Failures == SumOver(action_counter, {k \in DOMAIN action_counter : k[2] = "False"})

\* C9 as claimed: after N successful and M failed record_action calls,
\* get_metrics reports actions.total = N + M and actions.success_rate =
\* N / (N + M), and 0.0 when nothing was recorded.
C9_SuccessRateClaimed ==
    (last.op = "get_metrics")
    => /\ "actions" \in DOMAIN last.result
       /\ last.result.actions.total = Successes + Failures
       /\ IF Successes + Failures = 0
          THEN last.result.actions.success_rate.num = 0
          ELSE last.result.actions.success_rate.num * (Successes + Failures)
                   = Successes * last.result.actions.success_rate.den

\* the quantities of the inputs, in millicores and in Mi
C10_Amount(quantity) ==
    CASE quantity = Str100m -> 100
      [] quantity = Str500m -> 500
      [] quantity = Str128Mi -> 128
      [] quantity = Str512Mi -> 512

\* the inputs for which C10_Amount is defined
C10_WellFormed(target) ==
    /\ Get(target, "current_cpu", Str100m) \in {Str100m, Str500m}
    /\ Get(target, "current_memory", Str128Mi) \in {Str128Mi, Str512Mi}

C11_StructuredResult ==
    (last.op = "handle_prediction")
    => /\ {"timestamp", "prediction", "actions", "success"}
              \subseteq DOMAIN last.result
       /\ last.result.prediction = last.prediction
       /\ last.result.success \in BOOLEAN

\* a prediction without its confidence, answered with the KeyError as error
C11_Witness ==
    /\ last.op = "handle_prediction"
    /\ "confidence" \notin DOMAIN last.prediction
    /\ "success" \in DOMAIN last.result
    /\ last.result.success = FALSE
    /\ last.result.error = KeyErrorMsg("confidence")

\* the calls that only read the state
ReaderOps == {"get_action_history", "get_effectiveness_metrics"}

\* C12 as claimed: the handlers of server.py are coroutines without an await,
\* so the calls of concurrent clients are served one whole call at a time, in
\* any order.  Served so, no call loses an entry of the log or a count of a
\* counter, and whenever a reader is served the length of the action log
\* equals the total of the action counters.
C12_ConcurrentReadersClaimed ==
    [][/\ Len(action_history') >= Len(action_history)
       /\ \A k \in DOMAIN action_counter : action_counter'[k] >= action_counter[k]
       /\ \A t \in DOMAIN prevention_counter :
             prevention_counter'[t] >= prevention_counter[t]
       /\ \A t \in DOMAIN false_positive_counter :
             false_positive_counter'[t] >= false_positive_counter[t]
       /\ (last'.op \in ReaderOps)
             => Len(action_history') = Total(action_counter')]_vars

\* C13 as claimed: the number of entries of the action log equals the number
\* of actions recorded in the collector, summed over every (type, outcome).
C13_LogMatchesCountersClaimed ==
    Len(action_history) = Total(action_counter)

\* C14 as claimed: a handle_prediction call whose plan holds at least one
\* action adds exactly one to the prevention counter of its issue type; a call
\* that was gated, that failed in the dispatch or whose plan is empty leaves
\* every prevention counter as it was.
C14_PreventionClaimed ==
    [][HandleStep
       => IF last'.built /\ last'.plan # <<>>
          THEN prevention_counter'
                   = [prevention_counter EXCEPT
                          ![IssueTypeOf(last'.prediction)] = @ + 1]
          ELSE prevention_counter' = prevention_counter]_vars

\* the log entry the recording loop makes of a planned action
Stamped(action) ==
    [type |-> action.type, details |-> action.details, timestamp |-> Timestamp]

\* the except clause ran: it alone gives the result an error that is not None
ExceptionRaised(result) ==
    /\ "error" \in DOMAIN result
    /\ result.error # NoneVal

\* C15: a handle_prediction call in which an exception is raised, while the
\* plan is built or while it is recorded, returns success = false, the message
\* of the exception as error and no actions; what was appended to the log
\* before the exception stays there, so a call that raises while recording
\* reports no actions and leaves the log one entry longer.
C15_ExceptionNoRollback ==
    [][(HandleStep /\ ExceptionRaised(last'.result))
       => /\ last'.result.success = FALSE
          /\ last'.result.actions = <<>>
          /\ last'.result.error # ""
          /\ ("confidence" \notin DOMAIN last'.prediction)
                => last'.result.error = KeyErrorMsg("confidence")
          /\ (/\ "confidence" \in DOMAIN last'.prediction
              /\ "issue_type" \in DOMAIN last'.prediction
              /\ last'.prediction.issue_type \notin IssueTypes)
                => last'.result.error
                       = UnknownIssueMsg(last'.prediction.issue_type)
          /\ IF last'.built
             THEN /\ last'.plan # <<>>
                  /\ last'.result.error \in {KeyErrorMsg("success"), UnboundLocalMsg}
                  /\ action_history'
                         = Append(action_history, Stamped(last'.plan[1]))
             ELSE action_history' = action_history]_vars

\* a call that raised while recording: it reports no actions and the log, not
\* empty before it, ends with the action it appended
C15_Witness ==
    /\ last.op = "handle_prediction"
    /\ ExceptionRaised(last.result)
    /\ last.built
    /\ last.result.actions = <<>>
    /\ last.result.error = KeyErrorMsg("success")
    /\ Len(action_history) = 2
    /\ action_history[2] = Stamped(last.plan[1])

\* the executor operations of a sequence of calls
OpsOf(calls) == [i \in 1..Len(calls) |-> calls[i].op]

\* C16 as claimed: when an executor call of a plan fails, the failure is one
\* error-status entry of the log and the call goes on: every planned action is
\* executed and is in the log, in plan order (for resource_exhaustion, the
\* optimize_resources after a failed scale_deployment).
C16_FailedActionClaimed ==
    (/\ HandledPastGate
     /\ last.built
     /\ \E i \in 1..Len(last.plan) : last.plan[i].details.status = "error")
    => LET n == Len(action_history)
           k == Len(last.plan)
           c == Len(last.calls)
       IN /\ c >= k
          /\ OpsOf(SubSeq(last.calls, c - k + 1, c)) = TypesOf(last.plan)
          /\ n >= k
          /\ SubSeq(action_history, n - k + 1, n)
                 = [i \in 1..k |-> Stamped(last.plan[i])]

\* C17: a handle_prediction call makes at most two executor calls and makes no
\* executor operation twice, so none is tried again after it reported an
\* error; a call that is gated, or whose issue type is not recognized, makes
\* none.
C17_BoundedExecutorCalls ==
    (last.op = "handle_prediction")
    => /\ Len(last.calls) <= 2
       /\ \A i, j \in 1..Len(last.calls) :
             i # j => last.calls[i].op # last.calls[j].op
       /\ (\/ "confidence" \notin DOMAIN last.prediction
           \/ last.prediction.confidence < prediction_threshold
           \/ IssueTypeOf(last.prediction) \notin IssueTypes)
             => last.calls = <<>>

\* a resource_exhaustion call whose scale_deployment reported an error: two
\* calls were made, the failed one once
C17_Witness ==
    /\ HandledPastGate
    /\ last.built
    /\ OpsOf(last.calls) = <<"scale_deployment", "optimize_resources">>
    /\ last.plan[1].details.status = "error"

\* a handle_prediction step on a prediction of the issue type that passed the
\* gate and has its target
PastGateStep(issue_type) ==
    /\ HandleStep
    /\ "confidence" \in DOMAIN last'.prediction
    /\ last'.prediction.confidence >= prediction_threshold
    /\ IssueTypeOf(last'.prediction) = issue_type
    /\ "target" \in DOMAIN last'.prediction

\* C18 as claimed: performance_degradation past the gate queries the metrics of
\* target.node; when the CPU or the memory usage of the node is above 0.8 (the
\* demo node: 0.75 and 0.85) exactly one optimize_resources action is returned
\* in the result and appended to the log; when both are at most 0.8 the result
\* is success = true with no actions and the log and the counters stay as they
\* were.
C18_DegradationClaimed ==
    [][(/\ PastGateStep("performance_degradation")
        /\ "node" \in DOMAIN last'.prediction.target
        /\ demo_mode)
       => LET node == last'.prediction.target.node
              metrics == get_node_metrics(TRUE, "found", node)
          IN /\ last'.calls # <<>>
             /\ last'.calls[1] = MetricsCall(node)
             /\ IF metrics.cpu_usage > 80 \/ metrics.memory_usage > 80
                THEN /\ TypesOf(last'.result.actions) = <<"optimize_resources">>
                     /\ action_history'
                            = Append(action_history, last'.result.actions[1])
                ELSE /\ last'.result.success = TRUE
                     /\ last'.result.actions = <<>>
                     /\ action_history' = action_history
                     /\ UNCHANGED metricVars]_vars

\* C19 as claimed: node_failure past the gate makes exactly one executor call,
\* relocate_pod on target.pod in target.namespace, returns that one action in
\* the result and appends exactly that entry to the log.
C19_NodeFailureClaimed ==
    [][(/\ PastGateStep("node_failure")
        /\ {"namespace", "pod"} \subseteq DOMAIN last'.prediction.target)
       => LET target == last'.prediction.target
          IN /\ last'.calls = <<RelocateCall(target.namespace, target.pod)>>
             /\ TypesOf(last'.result.actions) = <<"relocate_pod">>
             /\ action_history'
                    = Append(action_history, last'.result.actions[1])]_vars

\* C20: the action log only grows at its end: every step leaves each entry in
\* its place with every field but false_positive as it was, false_positive is
\* only ever set to true, and an entry that has the flag keeps it.  (Holding
\* on every step, the log of any earlier state is a prefix, flags apart, of
\* the log of every later one.)
C20_AppendOnlyLog ==
    [][\/ action_history' = action_history
       \/ /\ Len(action_history') >= Len(action_history)
          /\ \A i \in 1..Len(action_history) :
                LET old == action_history[i]
                    new == action_history'[i]
                IN \/ new = old
                   \/ /\ DOMAIN new \subseteq DOMAIN old \cup {"false_positive"}
                      /\ \A k \in DOMAIN old \ {"false_positive"} :
                            k \in DOMAIN new /\ new[k] = old[k]
                      /\ "false_positive" \in DOMAIN new
                      /\ new.false_positive = TRUE]_vars

\* an entry was flagged, and a later handle_prediction appended a second entry
\* behind it: the first entry still has its flag
C20_Witness ==
    /\ last.op = "handle_prediction"
    /\ last.built
    /\ Len(action_history) = 2
    /\ Get(action_history[1], "false_positive", FALSE) = TRUE
    /\ action_history[2] = Stamped(last.plan[1])

\* C21: on every step of the collector the action counts per (type, outcome),
\* the prevention counts per issue type and the false-positive counts per
\* action type do not decrease; record_resource_utilization stores the value
\* it is given under its (resource_type, namespace) key, whatever was stored
\* there, and leaves every other key and every counter as it was.
C21_CountersMonotone ==
    [][/\ \A k \in DOMAIN action_counter : action_counter'[k] >= action_counter[k]
       /\ \A t \in DOMAIN prevention_counter :
             prevention_counter'[t] >= prevention_counter[t]
       /\ \A t \in DOMAIN false_positive_counter :
             false_positive_counter'[t] >= false_positive_counter[t]
       /\ (last'.op = "record_resource_utilization")
             => /\ resource_utilization'
                       = [k \in DOMAIN resource_utilization |->
                             IF k = <<last'.resource_type, last'.namespace>>
                             THEN last'.value
                             ELSE resource_utilization[k]]
                /\ UNCHANGED <<action_counter, action_duration,
                               prevention_counter, false_positive_counter>>]_vars

\* the gauge of cpu holding the value just written, while the gauge of memory
\* and the counters, written before, stand as they were
C21_Witness ==
    /\ last.op = "record_resource_utilization"
    /\ last.resource_type = "cpu"
    /\ last.value = 40
    /\ resource_utilization[<<"cpu", "default">>] = 40
    /\ resource_utilization[<<"memory", "default">>] = 70
    /\ Total(action_counter) >= 1
    /\ Total(prevention_counter) >= 1

\* the result of the gate: success = false, no actions and no error key
GatedResult(result) ==
    /\ "error" \notin DOMAIN result
    /\ result.success = FALSE
    /\ result.actions = <<>>

\* C22: handle_prediction gates against the threshold as the most recent
\* accepted set_prediction_threshold left it (0.8 before any): the stored
\* threshold changes only by an accepted set, which stores its argument; a
\* prediction is answered by the gate exactly when its confidence is strictly
\* below the stored threshold, and one whose confidence equals it goes on to
\* the dispatch.  Nothing is clamped: a confidence of -0.1 is below the
\* threshold 0 and is gated.
C22_GateAgainstStored ==
    [][/\ (prediction_threshold' # prediction_threshold)
             => /\ last'.op = "set_prediction_threshold"
                /\ ~last'.raised
                /\ prediction_threshold' = last'.threshold
       /\ (last'.op = "set_prediction_threshold" /\ ~last'.raised)
             => prediction_threshold' = last'.threshold
       /\ (HandleStep /\ "confidence" \in DOMAIN last'.prediction)
             => IF last'.prediction.confidence < prediction_threshold
                THEN /\ GatedResult(last'.result)
                     /\ last'.calls = <<>>
                     /\ ~last'.built
                ELSE /\ ~GatedResult(last'.result)
                     /\ \/ last'.built
                        \/ ExceptionRaised(last'.result)]_vars

\* after the threshold was set to 0, a prediction of confidence 0.5, below
\* the initial 0.8, passed the gate and its plan was built
C22_Witness ==
    /\ last.op = "handle_prediction"
    /\ prediction_threshold = 0
    /\ "confidence" \in DOMAIN last.prediction
    /\ last.prediction.confidence = 50
    /\ last.built
    /\ last.calls # <<>>

\* C23: the stored threshold is 0.8 when the agent is constructed and lies in
\* [0, 1] in every reachable state, whatever calls have run.
C23_ThresholdInRange ==
    /\ 0 <= prediction_threshold
    /\ prediction_threshold <= 100
    /\ (last.op = "init") => prediction_threshold = DefaultThreshold

\* the bound 1 stored, a value above it rejected afterwards, the log not empty
C23_Witness ==
    /\ last.op = "set_prediction_threshold"
    /\ last.raised
    /\ last.threshold = 101
    /\ prediction_threshold = 100
    /\ action_history # <<>>

\* a numeric text: a non-empty run of digits
C24_Numeric(s) == s # <<>> /\ \A i \in 1..Len(s) : IsDigit(s[i])

\* what the claim says a parser returns for the quantity q, the suffixes being
\* given with their scales: the number before a suffix times its scale, the
\* number alone, and 0.0 for anything else
C24_Claimed(q, scales) ==
    IF \E x \in DOMAIN scales : EndsWith(q, x) /\ C24_Numeric(DropLast(q, Len(x)))
    THEN LET x == CHOOSE x \in DOMAIN scales :
                     EndsWith(q, x) /\ C24_Numeric(DropLast(q, Len(x)))
         IN [num |-> DigitsToNat(DropLast(q, Len(x))), scale |-> scales[x]]
    ELSE IF C24_Numeric(q) THEN [num |-> DigitsToNat(q), scale |-> "1"]
    ELSE Zero

\* C24 as claimed: _parse_cpu_value and _parse_memory_value return 0.0 for
\* every input that is not numeric, and for a number with a suffix the number
\* times the scale of the suffix (CPU: n 1e-9, u 1e-6, m 1e-3, none 1; memory:
\* Ki 1024, Mi 1024^2, Gi 1024^3, none 1).
C24_ParserClaimed ==
    /\ (last.op = "_parse_cpu_value")
          => last.result
                 = C24_Claimed(last.cpu,
                               [x \in {<<"n">>, <<"u">>, <<"m">>} |->
                                   CASE x = <<"n">> -> "1e-9"
                                     [] x = <<"u">> -> "1e-6"
                                     [] x = <<"m">> -> "1e-3"])
    /\ (last.op = "_parse_memory_value")
          => last.result
                 = C24_Claimed(last.memory,
                               [x \in {<<"K", "i">>, <<"M", "i">>, <<"G", "i">>} |->
                                   CASE x = <<"K", "i">> -> "1024"
                                     [] x = <<"M", "i">> -> "1024^2"
                                     [] x = <<"G", "i">> -> "1024^3"])

\* C25: each operation changes its own part of the state only:
\* handle_prediction leaves the stored threshold as it was;
\* set_prediction_threshold, accepted or rejected, leaves the action log and
\* every metric of the collector as they were; get_action_history and
\* get_effectiveness_metrics leave the log, the metrics and the threshold as
\* they were.
C25_FrameConditions ==
    [][/\ HandleStep => prediction_threshold' = prediction_threshold
       /\ (last'.op = "set_prediction_threshold")
             => /\ action_history' = action_history
                /\ UNCHANGED metricVars
       /\ (last'.op \in ReaderOps)
             => /\ action_history' = action_history
                /\ UNCHANGED metricVars
                /\ prediction_threshold' = prediction_threshold]_vars

\* a threshold accepted when the log held a flagged entry and a false-positive
\* count: both are still there
C25_Witness ==
    /\ last.op = "set_prediction_threshold"
    /\ ~last.raised
    /\ prediction_threshold = 100
    /\ Len(action_history) = 2
    /\ Get(action_history[1], "false_positive", FALSE) = TRUE
    /\ Total(false_positive_counter) >= 1

\* the entries of the log that have the flag
Flagged == {i \in 1..Len(action_history) :
               Get(action_history[i], "false_positive", FALSE)}

\* C26: the false-positive counters move only by a mark_false_positive call
\* that returns true, and by exactly one for such a call, so that their total
\* is the number of those calls; such a call sets the flag of exactly one
\* entry, the first of the log whose id and type both equal its arguments, and
\* changes no other entry.  The entry may have the flag already: the call
\* returns true and counts again, and the total can exceed the number of
\* flagged entries.
C26_FalsePositiveCount ==
    [][IF last'.op = "mark_false_positive" /\ last'.result = TRUE
       THEN LET hits == {i \in 1..Len(action_history) :
                            /\ Get(action_history[i], "id", NoneVal) = last'.action_id
                            /\ Get(action_history[i], "type", NoneVal)
                                   = last'.action_type}
            IN /\ hits # {}
               /\ Len(action_history') = Len(action_history)
               /\ \A i \in hits :
                     (\A j \in hits : i <= j)
                     => /\ action_history'[i]
                               = [k \in DOMAIN action_history[i]
                                            \cup {"false_positive"} |->
                                     IF k = "false_positive" THEN TRUE
                                     ELSE action_history[i][k]]
                        /\ \A j \in 1..Len(action_history) :
                              j # i => action_history'[j] = action_history[j]
               /\ false_positive_counter'
                      = [t \in DOMAIN false_positive_counter |->
                            IF t = last'.action_type
                            THEN false_positive_counter[t] + 1
                            ELSE false_positive_counter[t]]
       ELSE false_positive_counter' = false_positive_counter]_vars

\* the same entry marked twice: two counts, one flagged entry
C26_Witness ==
    /\ last.op = "mark_false_positive"
    /\ last.result = TRUE
    /\ Total(false_positive_counter) = 2
    /\ Cardinality(Flagged) = 1
    /\ Len(action_history) = 2

=============================================================================
